---- MODULE Spec2Model ----
(***************************************************************************)
(* Verification model of the research-assistant RAG pipeline:              *)
(*   - compute_category_targets   (src/src/utils/dataset_utils.py)         *)
(*   - truncate_by_sentences, _format_context, Retriever                   *)
(*                                (src/src/rag/retriever.py)               *)
(*   - AnswerGenerator            (src/src/rag/generator.py)               *)
(*   - extract_used_ids, filter_citations, filter_context_by_ids, answer   *)
(*                                (src/src/server/app.py)                  *)
(* Python strings are modelled as sequences of one-character strings.      *)
(***************************************************************************)
EXTENDS Integers, Sequences, FiniteSets, TLC

VARIABLES
    \* compute_category_targets
    cats,           \* cfg["dataset"]["categories"]: sequence of weights (ids are the indexes)
    max_papers,     \* cfg["dataset"]["max_papers"]
    int_alloc,      \* the local int_alloc
    current_total,  \* the local current_total
    q_pc,           \* position inside compute_category_targets
    q_iters,        \* how many bodies of the two correction loops have run
    targets,        \* the returned list of quotas (by category index)
    \* truncate_by_sentences
    tr_text,        \* argument text
    tr_max_chars,   \* argument max_chars
    tr_result,      \* the returned text
    tr_pc,          \* "call" before the call, "done" after it returned
    \* AnswerGenerator.generate
    llm,            \* which chat backend answers: its name selects the texts it may produce
    g_args,         \* the arguments [query, context] of generate
    g_messages,     \* the local messages
    g_out,          \* the local out
    g_calls,        \* the backend calls made so far: [temp, msgs, out]
    g_pc,           \* position inside generate
    \* extract_used_ids
    ex_answer,      \* argument answer
    ex_result,      \* the returned list of identifiers
    ex_pc,          \* "call" before the call, "done" after it returned
    \* Retriever and the /answer handler
    cfg,            \* the vector_store configuration read by Retriever.__init__
    req,            \* the AnswerRequest
    a_pc,           \* position inside answer / run_rag / retrieve
    rows,           \* retrieve: the rows returned by the index search
    candidates,     \* retrieve: the local candidates
    ranked,         \* retrieve: the local ranked
    r,              \* run_rag: the result of retrieve
    payload,        \* answer: the response payload
    \* fetch_papers_weighted and fetch_papers_for_category
    f_pc,           \* position inside fetch_papers_weighted / fetch_papers_for_category
    f_idx,          \* fetch_papers_weighted: index of the current (cat_id, target_n)
    f_total,        \* fetch_papers_weighted: total_yielded
    f_limit,        \* fetch_papers_for_category: limit
    f_fetched,      \* fetch_papers_for_category: fetched
    f_start,        \* fetch_papers_for_category: start
    f_max_results,  \* fetch_papers_for_category: max_results
    f_page,         \* fetch_papers_for_category: the entries of the page not yet looked at
    f_yielded,      \* the number of records yielded so far, by category index
    \* several /answer requests in flight on the shared retriever and generator
    c_shared,       \* app.state: the attributes of the Retriever and of the AnswerGenerator
    c_req,          \* per request: the AnswerRequest
    c_pc,           \* per request: position inside answer / run_rag
    c_k,            \* per request: retrieve's local k
    c_rows,         \* per request: the rows the index returned
    c_scores,       \* per request: the scores the cross-encoder returned
    c_r,            \* per request: run_rag's local r
    c_calls,        \* per request: the backend calls made by generate
    c_out,          \* per request: generate's local out
    c_payload       \* per request: the response payload

qvars == <<cats, max_papers, int_alloc, current_total, q_pc, q_iters, targets>>
trvars == <<tr_text, tr_max_chars, tr_result, tr_pc>>
gvars == <<llm, g_args, g_messages, g_out, g_calls, g_pc>>
exvars == <<ex_answer, ex_result, ex_pc>>
avars == <<cfg, req, a_pc, rows, candidates, ranked, r, payload>>
fvars == <<f_pc, f_idx, f_total, f_limit, f_fetched, f_start, f_max_results, f_page, f_yielded>>

cvars == <<c_shared, c_req, c_pc, c_k, c_rows, c_scores, c_r, c_calls, c_out, c_payload>>

vars == <<qvars, trvars, gvars, exvars, avars, fvars, cvars>>

\* what the actions of one component leave alone
NotQ == <<trvars, gvars, exvars, avars, fvars, cvars>>
NotTr == <<qvars, gvars, exvars, avars, fvars, cvars>>
NotG == <<qvars, trvars, exvars, avars, fvars, cvars>>
NotEx == <<qvars, trvars, gvars, avars, fvars, cvars>>
NotA == <<qvars, trvars, exvars, fvars, cvars>>
NotF == <<trvars, gvars, exvars, avars, cvars>>
NotC == <<qvars, trvars, gvars, exvars, avars, fvars>>

\* the state of a component that is not running
QIdle ==
    /\ cats = <<>>
    /\ max_papers = 0
    /\ int_alloc = <<>>
    /\ current_total = 0
    /\ q_pc = "idle"
    /\ q_iters = 0
    /\ targets = <<>>

TrIdle ==
    /\ tr_text = <<>>
    /\ tr_max_chars = 0
    /\ tr_result = <<>>
    /\ tr_pc = "idle"

ExIdle ==
    /\ ex_answer = <<>>
    /\ ex_result = <<>>
    /\ ex_pc = "idle"

None == "None"
\* an Optional value: Absent for Python's None (or a missing key), Some(x) for x
Absent == <<>>
Some(x) == <<x>>

AIdle ==
    /\ cfg = None
    /\ req = None
    /\ a_pc = "idle"
    /\ rows = <<>>
    /\ candidates = <<>>
    /\ ranked = <<>>
    /\ r = None
    /\ payload = None

FIdle ==
    /\ f_pc = "idle"
    /\ f_idx = 0
    /\ f_total = 0
    /\ f_limit = 0
    /\ f_fetched = 0
    /\ f_start = 0
    /\ f_max_results = 0
    /\ f_page = <<>>
    /\ f_yielded = <<>>

CIdle ==
    /\ c_shared = None
    /\ c_req = <<>>
    /\ c_pc = <<>>
    /\ c_k = <<>>
    /\ c_rows = <<>>
    /\ c_scores = <<>>
    /\ c_r = <<>>
    /\ c_calls = <<>>
    /\ c_out = <<>>
    /\ c_payload = <<>>

GIdle ==
    /\ llm = "none"
    /\ g_args = <<>>
    /\ g_messages = <<>>
    /\ g_out = <<>>
    /\ g_calls = <<>>
    /\ g_pc = "idle"

----------------------------------------------------------------------------
(* Generic helpers *)

Max2(a, b) == IF a >= b THEN a ELSE b
Min2(a, b) == IF a <= b THEN a ELSE b

SumSeq(s) ==
    LET partial[i \in 0..Len(s)] == IF i = 0 THEN 0 ELSE partial[i - 1] + s[i]
    IN partial[Len(s)]

\* all sequences over S of length 0..n
SeqsUpTo(S, n) == UNION {[1..k -> S] : k \in 0..n}

----------------------------------------------------------------------------
(* Bounds of the quota model *)

MaxCats == 4
MaxPapers == 5
Weights == {0, 1, 2, 9}

----------------------------------------------------------------------------
(* compute_category_targets, dataset_utils.py:13-60 *)

\* max(range(len(int_alloc)), key=lambda i: cats[i]["weight"]): first index of maximal weight
MaxWeightIdx(ws) ==
    CHOOSE i \in 1..Len(ws) :
        /\ \A j \in 1..Len(ws) : ws[j] <= ws[i]
        /\ \A j \in 1..(i-1) : ws[j] < ws[i]

\* (a1, a2) < (b1, b2) in Python's tuple order
TupleLess(a1, a2, b1, b2) == a1 < b1 \/ (a1 = b1 /\ a2 < b2)

\* min(range(len(int_alloc)), key=lambda i: (cats[i]["weight"], int_alloc[i])): first minimal index
MinKeyIdx(ws, al) ==
    CHOOSE i \in 1..Len(ws) :
        /\ \A j \in 1..Len(ws) : ~TupleLess(ws[j], al[j], ws[i], al[i])
        /\ \A j \in 1..(i-1) : TupleLess(ws[i], al[i], ws[j], al[j])

\* lines 27-28: int(max_papers * w / total_weight), floored at 1
ProportionalAlloc(ws, n) ==
    [i \in 1..Len(ws) |-> Max2((n * ws[i]) \div SumSeq(ws), 1)]

\* lines 33-37: scale down by max_papers / current_total, floored at 1
ScaleDown(al, n) ==
    [i \in 1..Len(al) |-> Max2((al[i] * n) \div SumSeq(al), 1)]

QInit ==
    /\ cats \in SeqsUpTo(Weights, MaxCats)
    /\ max_papers \in 0..MaxPapers
    /\ int_alloc = <<>>
    /\ current_total = 0
    /\ q_pc = "start"
    /\ q_iters = 0
    /\ targets = <<>>

\* lines 18-37: weights, total_weight check, proportional allocation, scale-down
QAllocate ==
    /\ q_pc = "start"
    /\ IF SumSeq(cats) <= 0
       THEN /\ q_pc' = "raised"         \* ValueError("Total category weight must be > 0")
            /\ UNCHANGED <<int_alloc, current_total>>
       ELSE LET a0 == ProportionalAlloc(cats, max_papers)
                a1 == IF SumSeq(a0) > max_papers THEN ScaleDown(a0, max_papers) ELSE a0
            IN /\ int_alloc' = a1
               /\ current_total' = SumSeq(a1)
               /\ q_pc' = "inc"
    /\ UNCHANGED <<cats, max_papers, q_iters, targets, NotQ>>

\* lines 40-44: one iteration of the increment loop
QIncrement ==
    /\ q_pc = "inc"
    /\ current_total < max_papers
    /\ int_alloc' = [int_alloc EXCEPT ![MaxWeightIdx(cats)] = @ + 1]
    /\ current_total' = current_total + 1
    /\ q_iters' = q_iters + 1
    /\ UNCHANGED <<cats, max_papers, q_pc, targets, NotQ>>

\* line 40: the increment loop's condition is false
QIncExit ==
    /\ q_pc = "inc"
    /\ ~(current_total < max_papers)
    /\ q_pc' = "dec"
    /\ UNCHANGED <<cats, max_papers, int_alloc, current_total, q_iters, targets, NotQ>>

\* the decrement loop without its break: the loop goes on when the category of
\* smallest (weight, quota) is already at 1
QDecStepNoBreak ==
    /\ q_pc = "dec"
    /\ current_total > max_papers
    /\ LET min_idx == MinKeyIdx(cats, int_alloc)
       IN IF int_alloc[min_idx] > 1
          THEN /\ int_alloc' = [int_alloc EXCEPT ![min_idx] = @ - 1]
               /\ current_total' = current_total - 1
          ELSE UNCHANGED <<int_alloc, current_total>>
    /\ q_pc' = q_pc
    /\ q_iters' = IF q_iters <= MaxCats + 1 THEN q_iters + 1 ELSE q_iters
    /\ UNCHANGED <<cats, max_papers, targets, NotQ>>

\* lines 46-57: one iteration of the decrement loop: lower the category of
\* smallest (weight, quota) if it is above 1, else break
QDecStep ==
    /\ q_pc = "dec"
    /\ current_total > max_papers
    /\ LET min_idx == MinKeyIdx(cats, int_alloc)
       IN IF int_alloc[min_idx] > 1
          THEN /\ int_alloc' = [int_alloc EXCEPT ![min_idx] = @ - 1]
               /\ current_total' = current_total - 1
               /\ q_pc' = q_pc
          ELSE /\ q_pc' = "ret"
               /\ UNCHANGED <<int_alloc, current_total>>
    /\ q_iters' = q_iters + 1
    /\ UNCHANGED <<cats, max_papers, targets, NotQ>>

\* line 46: the decrement loop's condition is false
QDecExit ==
    /\ q_pc = "dec"
    /\ ~(current_total > max_papers)
    /\ q_pc' = "ret"
    /\ UNCHANGED <<cats, max_papers, int_alloc, current_total, q_iters, targets, NotQ>>

\* lines 59-60
QReturn ==
    /\ q_pc = "ret"
    /\ targets' = int_alloc
    /\ q_pc' = "done"
    /\ UNCHANGED <<cats, max_papers, int_alloc, current_total, q_iters, NotQ>>

QNext ==
    \/ QAllocate
    \/ QIncrement
    \/ QIncExit
    \/ QDecStep
    \/ QDecExit
    \/ QReturn

InitQuota == QInit /\ TrIdle /\ GIdle /\ ExIdle /\ AIdle /\ FIdle /\ CIdle
NextQuota == QNext
SpecQuota == InitQuota /\ [][NextQuota]_vars

\* compute_category_targets is a sequential function: once called it keeps
\* running, so a step is taken whenever one is possible
FairQuota == WF_vars(NextQuota)

\* the calls whose termination is checked: the same weights, shorter lists
LiveCats == 3
LivePapers == 4

QInitLive ==
    /\ cats \in SeqsUpTo(Weights, LiveCats)
    /\ max_papers \in 0..LivePapers
    /\ int_alloc = <<>>
    /\ current_total = 0
    /\ q_pc = "start"
    /\ q_iters = 0
    /\ targets = <<>>

InitQuotaLive == QInitLive /\ TrIdle /\ GIdle /\ ExIdle /\ AIdle /\ FIdle /\ CIdle
SpecQuotaLive == InitQuotaLive /\ [][NextQuota]_vars /\ FairQuota

----------------------------------------------------------------------------
(* fetch_papers_weighted and fetch_papers_for_category, dataset_utils.py:75-199.
   The feed is outside the program: a request returns any page, whatever
   max_results asked for. *)

\* the longest page the feed returns
MaxPage == 2
\* cfg["dataset"]["batch_size"]
BatchSize == 2

\* what _entry_year and the cutoff make of a feed entry: published within the
\* recent years, published before the cutoff year, or without a date
EntryKinds == {"recent", "old", "undated"}
Pages == SeqsUpTo(EntryKinds, MaxPage)

FInit ==
    /\ f_pc = "call"
    /\ f_idx = 0
    /\ f_total = 0
    /\ f_limit = 0
    /\ f_fetched = 0
    /\ f_start = 0
    /\ f_max_results = 0
    /\ f_page = <<>>
    /\ f_yielded = <<>>

\* lines 173-179: compute_category_targets returned; total_yielded = 0
FCall ==
    /\ f_pc = "call"
    /\ q_pc = "done"
    /\ f_idx' = 1
    /\ f_total' = 0
    /\ f_yielded' = [i \in 1..Len(targets) |-> 0]
    /\ f_pc' = "cat"
    /\ UNCHANGED <<f_limit, f_fetched, f_start, f_max_results, f_page, qvars, NotF>>

\* line 173: compute_category_targets raised ValueError
FComputeRaised ==
    /\ f_pc = "call"
    /\ q_pc = "raised"
    /\ f_pc' = "raised"
    /\ UNCHANGED <<f_idx, f_total, f_limit, f_fetched, f_start, f_max_results, f_page, f_yielded, qvars, NotF>>

\* lines 181-195 and 89-93: the next category is started with
\* limit = min(target_n, max_papers - total_yielded), fetched = 0, start = 0
FCatBegin ==
    /\ f_pc = "cat"
    /\ f_idx <= Len(targets)
    /\ ~(f_total >= max_papers)
    /\ f_limit' = Min2(targets[f_idx], max_papers - f_total)
    /\ f_fetched' = 0
    /\ f_start' = 0
    /\ f_pc' = "page"
    /\ UNCHANGED <<f_idx, f_total, f_max_results, f_page, f_yielded, qvars, NotF>>

\* line 181 with no category left, or lines 182-183: the global cap is reached
FFinish ==
    /\ f_pc = "cat"
    /\ (f_idx > Len(targets) \/ f_total >= max_papers)
    /\ f_pc' = "done"
    /\ UNCHANGED <<f_idx, f_total, f_limit, f_fetched, f_start, f_max_results, f_page, f_yielded, qvars, NotF>>

\* line 95: fetched < limit is false, the category's generator ends
FWhileExit ==
    /\ f_pc = "page"
    /\ ~(f_fetched < f_limit)
    /\ f_idx' = f_idx + 1
    /\ f_pc' = "cat"
    /\ UNCHANGED <<f_total, f_limit, f_fetched, f_start, f_max_results, f_page, f_yielded, qvars, NotF>>

\* lines 95-115: one request; an empty page ends the category
FRequest ==
    /\ f_pc = "page"
    /\ f_fetched < f_limit
    /\ f_max_results' = Min2(BatchSize, f_limit - f_fetched)
    /\ \E page \in Pages :
          IF page = <<>>
          THEN /\ f_idx' = f_idx + 1
               /\ f_pc' = "cat"
               /\ UNCHANGED f_page
          ELSE /\ f_page' = page
               /\ f_pc' = "entry"
               /\ UNCHANGED f_idx
    /\ UNCHANGED <<f_total, f_limit, f_fetched, f_start, f_yielded, qvars, NotF>>

\* lines 107-108: the request fails or the status is an error
FRequestRaises ==
    /\ f_pc = "page"
    /\ f_fetched < f_limit
    /\ f_max_results' = Min2(BatchSize, f_limit - f_fetched)
    /\ f_pc' = "raised"
    /\ UNCHANGED <<f_idx, f_total, f_limit, f_fetched, f_start, f_page, f_yielded, qvars, NotF>>

\* lines 118-122: an entry older than the cutoff ends the category
FOldEntry ==
    /\ f_pc = "entry"
    /\ f_page # <<>>
    /\ Head(f_page) = "old"
    /\ f_page' = <<>>
    /\ f_idx' = f_idx + 1
    /\ f_pc' = "cat"
    /\ UNCHANGED <<f_total, f_limit, f_fetched, f_start, f_max_results, f_yielded, qvars, NotF>>

\* the same step without the break of lines 156-157: the rest of the page is
\* yielded whatever the limit
FYieldWholePage ==
    /\ f_pc = "entry"
    /\ f_page # <<>>
    /\ Head(f_page) # "old"
    /\ f_yielded' = [f_yielded EXCEPT ![f_idx] = @ + 1]
    /\ f_total' = f_total + 1
    /\ IF f_total + 1 >= max_papers
       THEN /\ f_page' = <<>>
            /\ f_idx' = f_idx + 1
            /\ f_pc' = "cat"
            /\ UNCHANGED f_fetched
       ELSE /\ f_fetched' = f_fetched + 1
            /\ f_page' = Tail(f_page)
            /\ UNCHANGED <<f_idx, f_pc>>
    /\ UNCHANGED <<f_limit, f_start, f_max_results, qvars, NotF>>

\* lines 124-157 and 196-199: the entry is yielded and total_yielded counted;
\* at the global cap fetch_papers_weighted leaves the category (the generator is
\* dropped), else fetched is counted and at the limit the page is left
FYield ==
    /\ f_pc = "entry"
    /\ f_page # <<>>
    /\ Head(f_page) # "old"
    /\ f_yielded' = [f_yielded EXCEPT ![f_idx] = @ + 1]
    /\ f_total' = f_total + 1
    /\ IF f_total + 1 >= max_papers
       THEN /\ f_page' = <<>>
            /\ f_idx' = f_idx + 1
            /\ f_pc' = "cat"
            /\ UNCHANGED f_fetched
       ELSE /\ f_fetched' = f_fetched + 1
            /\ f_page' = IF f_fetched + 1 >= f_limit THEN <<>> ELSE Tail(f_page)
            /\ UNCHANGED <<f_idx, f_pc>>
    /\ UNCHANGED <<f_limit, f_start, f_max_results, qvars, NotF>>

\* lines 159-163: the page is done, start += max_results
FPageEnd ==
    /\ f_pc = "entry"
    /\ f_page = <<>>
    /\ f_start' = f_start + f_max_results
    /\ f_pc' = "page"
    /\ UNCHANGED <<f_idx, f_total, f_limit, f_fetched, f_max_results, f_page, f_yielded, qvars, NotF>>

FNext ==
    \/ FCall
    \/ FComputeRaised
    \/ FCatBegin
    \/ FFinish
    \/ FWhileExit
    \/ FRequest
    \/ FRequestRaises
    \/ FOldEntry
    \/ FYield
    \/ FPageEnd

InitFetch == QInitLive /\ FInit /\ TrIdle /\ GIdle /\ ExIdle /\ AIdle /\ CIdle
NextFetch == QNext \/ FNext
SpecFetch == InitFetch /\ [][NextFetch]_vars

----------------------------------------------------------------------------
(* Strings: a Python str is a sequence of one-character strings *)

WhitespaceChars == {" ", "\n", "\t", "\r"}
IsSpace(c) == c \in WhitespaceChars            \* the regex class \s, str.strip()
Ellipsis == "U+2026"                            \* the single character "…"

Id1 == <<"2", "5", "0", "1", ".", "0", "0", "0", "0", "1", "v", "1">>
Id2 == <<"2", "5", "1", "0", ".", "0", "2", "9", "6", "4", "v", "1">>
Id9 == <<"2", "5", "9", "9", ".", "9", "9", "9", "9", "9", "v", "9">>             \* an identifier no document has

RECURSIVE LStrip(_)
LStrip(t) == IF t # <<>> /\ IsSpace(t[1]) THEN LStrip(Tail(t)) ELSE t

RECURSIVE RStrip(_)
RStrip(t) ==
    IF t # <<>> /\ IsSpace(t[Len(t)]) THEN RStrip(SubSeq(t, 1, Len(t) - 1)) ELSE t

\* str.strip()
Strip(t) == LStrip(RStrip(t))

\* sep.join(parts)
RECURSIVE Join(_, _)
Join(parts, sep) ==
    IF parts = <<>> THEN <<>>
    ELSE IF Len(parts) = 1 THEN parts[1]
    ELSE parts[1] \o sep \o Join(Tail(parts), sep)

----------------------------------------------------------------------------
(* truncate_by_sentences, retriever.py:26-45 *)

MaxTextLen == 5
MaxChars == 5
TextChars == {"a", ".", " ", "\n"}

\* re.sub(r"\s+", " ", text): every maximal run of whitespace becomes one space
RECURSIVE CollapseWs(_)
CollapseWs(t) ==
    IF t = <<>> THEN <<>>
    ELSE IF IsSpace(t[1]) THEN <<" ">> \o CollapseWs(LStrip(t))
    ELSE <<t[1]>> \o CollapseWs(Tail(t))

IsSentenceEnd(c) == c \in {".", "!", "?"}

\* last index of the whitespace run that starts at i
RECURSIVE WsRunEnd(_, _)
WsRunEnd(t, i) == IF i < Len(t) /\ IsSpace(t[i + 1]) THEN WsRunEnd(t, i + 1) ELSE i

\* re.split(r"(?<=[.!?])\s+", text), scanning from index i with the current piece starting at start
RECURSIVE SplitFrom(_, _, _)
SplitFrom(t, i, start) ==
    IF i > Len(t) THEN <<SubSeq(t, start, Len(t))>>
    ELSE IF IsSpace(t[i]) /\ i > 1 /\ IsSentenceEnd(t[i - 1])
         THEN <<SubSeq(t, start, i - 1)>> \o SplitFrom(t, WsRunEnd(t, i) + 1, WsRunEnd(t, i) + 1)
         ELSE SplitFrom(t, i + 1, start)

SplitSentences(t) == SplitFrom(t, 1, 1)

\* lines 37-43: whole sentences while total + len(s) + 1 <= max_chars
RECURSIVE TakeSentences(_, _, _)
TakeSentences(sentences, total, maxc) ==
    IF sentences = <<>> THEN <<>>
    ELSE IF total + Len(sentences[1]) + 1 > maxc THEN <<>>
    ELSE <<sentences[1]>> \o TakeSentences(Tail(sentences), total + Len(sentences[1]) + 1, maxc)

\* the same loop with the length test made before the sentence is counted
RECURSIVE TakeSentencesLate(_, _, _)
TakeSentencesLate(sentences, total, maxc) ==
    IF sentences = <<>> THEN <<>>
    ELSE IF total > maxc THEN <<>>
    ELSE <<sentences[1]>> \o TakeSentencesLate(Tail(sentences), total + Len(sentences[1]) + 1, maxc)

EllipsisMarker == <<" ", Ellipsis>>             \* line 45: " …"

truncate_by_sentences_late(text, maxc) ==
    LET t == Strip(CollapseWs(text))
    IN IF Len(t) <= maxc THEN text
       ELSE RStrip(Join(TakeSentencesLate(SplitSentences(t), 0, maxc), <<" ">>)) \o EllipsisMarker

truncate_by_sentences(text, maxc) ==
    LET t == Strip(CollapseWs(text))
    IN IF Len(t) <= maxc THEN t
       ELSE RStrip(Join(TakeSentences(SplitSentences(t), 0, maxc), <<" ">>)) \o EllipsisMarker

TrInit ==
    /\ tr_text \in SeqsUpTo(TextChars, MaxTextLen)
    /\ tr_max_chars \in 0..MaxChars
    /\ tr_result = <<>>
    /\ tr_pc = "call"

TrCall ==
    /\ tr_pc = "call"
    /\ tr_result' = truncate_by_sentences(tr_text, tr_max_chars)
    /\ tr_pc' = "done"
    /\ UNCHANGED <<tr_text, tr_max_chars, NotTr>>

InitTrunc == TrInit /\ QIdle /\ GIdle /\ ExIdle /\ AIdle /\ FIdle /\ CIdle
NextTrunc == TrCall
SpecTrunc == InitTrunc /\ [][NextTrunc]_vars

----------------------------------------------------------------------------
(* AnswerGenerator, generator.py:80-154, and build_messages, prompting.py:3-53 *)

MaxPieces == 3
Temperature == 2        \* self.temperature in tenths: llm.get("temperature", 0.2)

SourcesUsed == <<"S", "o", "u", "r", "c", "e", "s", " ", "u", "s", "e", "d", ":">>
SourcesUsedNoColon == <<"S", "o", "u", "r", "c", "e", "s", " ", "u", "s", "e", "d">>

\* needle in haystack (Python's substring test)
Contains(t, needle) ==
    \E i \in 1..(Len(t) - Len(needle) + 1) : SubSeq(t, i, i + Len(needle) - 1) = needle

HasChar(t, c) == \E i \in 1..Len(t) : t[i] = c

\* _is_compliant, lines 80-84
_is_compliant(text) ==
    Contains(text, SourcesUsed) /\ (HasChar(text, "[") /\ HasChar(text, "]"))

\* build_messages: one system message and one user message that embeds the
\* stripped question and the stripped context
build_messages(user_query, retrieved_context) ==
    << [role |-> "system", content |-> "SYSTEM_RULES"],
       [role |-> "user",
        content |-> [question |-> Strip(user_query), context |-> Strip(retrieved_context)]] >>

\* lines 141-147: the corrective instruction
RetryMessage ==
    [role |-> "user", content |-> "REWRITE_AND_FOLLOW_FORMAT"]

\* the texts of the compliance model: concatenations of these pieces
CompliancePieces == {SourcesUsed, SourcesUsedNoColon, <<"[">>, <<"]">>}

RECURSIVE Concat(_)
Concat(parts) == IF parts = <<>> THEN <<>> ELSE parts[1] \o Concat(Tail(parts))

ComplianceTexts == {Concat(ps) : ps \in SeqsUpTo(CompliancePieces, MaxPieces)}

\* the answers of the request model: compliant and not, citing one document,
\* two documents in an order of the model's choice, no document, or a
\* document that does not exist
AnswerTexts ==
    { <<"[">> \o Id1 \o <<"]">> \o SourcesUsed,
      <<"[">> \o Id2 \o <<"]", "[">> \o Id1 \o <<"]">> \o SourcesUsed,
      <<"[">> \o Id9 \o <<"]">> \o SourcesUsed,
      SourcesUsed \o <<"[", "x", "]">>,
      <<"x">> }

\* the raw texts a backend may return
BackendTexts(name) ==
    IF name = "compliance_texts" THEN ComplianceTexts
    ELSE IF name = "answer_texts" THEN AnswerTexts
    ELSE {}

GInit ==
    /\ llm = "compliance_texts"
    /\ g_args \in {[query |-> <<"q">>, context |-> <<>>],
                    [query |-> <<"q", " ">>, context |-> <<"c">>]}
    /\ g_messages = <<>>
    /\ g_out = <<>>
    /\ g_calls = <<>>
    /\ g_pc = "start"

\* line 112 and lines 133-137: build the messages and make the first backend
\* call at the configured temperature; call_ollama / call_llama_cpp strip the text
GFirstCall ==
    /\ g_pc = "start"
    /\ LET msgs == build_messages(g_args.query, g_args.context)
       IN /\ g_messages' = msgs
          /\ \E raw \in BackendTexts(llm) :
                /\ g_out' = Strip(raw)
                /\ g_calls' = Append(g_calls, [temp |-> Temperature, msgs |-> msgs, out |-> Strip(raw)])
    /\ g_pc' = "drafted"
    /\ UNCHANGED <<llm, g_args, NotG>>

\* the first backend call raises: the exception leaves generate
GFirstCallRaises ==
    /\ g_pc = "start"
    /\ LET msgs == build_messages(g_args.query, g_args.context)
       IN /\ g_messages' = msgs
          /\ g_calls' = Append(g_calls, [temp |-> Temperature, msgs |-> msgs, out |-> "raise"])
    /\ g_pc' = "raised"
    /\ UNCHANGED <<llm, g_args, g_out, NotG>>

\* line 140 with a compliant first output, line 154: return out
GAccept ==
    /\ g_pc = "drafted"
    /\ _is_compliant(g_out)
    /\ g_pc' = "accepted"
    /\ UNCHANGED <<llm, g_args, g_messages, g_out, g_calls, NotG>>

\* line 140 with a non-compliant first output: enter the retry branch
GReject ==
    /\ g_pc = "drafted"
    /\ ~_is_compliant(g_out)
    /\ g_pc' = "retrying"
    /\ UNCHANGED <<llm, g_args, g_messages, g_out, g_calls, NotG>>

\* the same step with the corrective message put in place of the user message
GRetryCallReplacesUser ==
    /\ g_pc = "retrying"
    /\ LET messages_retry == <<g_messages[1], RetryMessage>>
       IN \E raw \in BackendTexts(llm) :
            /\ g_out' = Strip(raw)
            /\ g_calls' = Append(g_calls, [temp |-> 0, msgs |-> messages_retry, out |-> Strip(raw)])
    /\ g_pc' = "final"
    /\ UNCHANGED <<llm, g_args, g_messages, NotG>>

\* the same step with the compliance check repeated after the retry
GRetryCallLoop ==
    /\ g_pc = "retrying"
    /\ LET messages_retry == g_messages \o <<RetryMessage>>
       IN \E raw \in BackendTexts(llm) :
            /\ g_out' = Strip(raw)
            /\ g_calls' = Append(g_calls, [temp |-> 0, msgs |-> messages_retry, out |-> Strip(raw)])
            /\ g_pc' = IF _is_compliant(Strip(raw)) \/ Len(g_calls) >= 3 THEN "final" ELSE "retrying"
    /\ UNCHANGED <<llm, g_args, g_messages, NotG>>

\* lines 141-154: the retry call at temperature 0 with the corrective message
\* appended; its output is returned without another check
GRetryCall ==
    /\ g_pc = "retrying"
    /\ LET messages_retry == g_messages \o <<RetryMessage>>
       IN \E raw \in BackendTexts(llm) :
            /\ g_out' = Strip(raw)
            /\ g_calls' = Append(g_calls, [temp |-> 0, msgs |-> messages_retry, out |-> Strip(raw)])
    /\ g_pc' = "final"
    /\ UNCHANGED <<llm, g_args, g_messages, NotG>>

\* the retry backend call raises
GRetryCallRaises ==
    /\ g_pc = "retrying"
    /\ g_calls' = Append(g_calls, [temp |-> 0, msgs |-> g_messages \o <<RetryMessage>>, out |-> "raise"])
    /\ g_pc' = "raised"
    /\ UNCHANGED <<llm, g_args, g_messages, g_out, NotG>>

GNext ==
    \/ GFirstCall
    \/ GFirstCallRaises
    \/ GAccept
    \/ GReject
    \/ GRetryCall
    \/ GRetryCallRaises

GReturned == g_pc \in {"accepted", "final"}

InitGen == GInit /\ QIdle /\ TrIdle /\ ExIdle /\ AIdle /\ FIdle /\ CIdle
NextGen == GNext
SpecGen == InitGen /\ [][NextGen]_vars

----------------------------------------------------------------------------
(* extract_used_ids and CITATION_RE, app.py:16-30 *)

MaxAnswerPieces == 4
YearMonthDigits == 4    \* \d{4}
NumberDigits == 5       \* \d{5}

Digits == {"0", "1", "2", "3", "4", "5", "6", "7", "8", "9"}
IsDigit(c) == c \in Digits

\* t[from..to] lies inside t and holds digits only
AllDigits(t, from, to) == to <= Len(t) /\ \A k \in from..to : IsDigit(t[k])

\* last index of the run of digits that starts at i (i - 1 if t[i] is no digit)
RECURSIVE DigitRunEnd(_, _)
DigitRunEnd(t, i) == IF i <= Len(t) /\ IsDigit(t[i]) THEN DigitRunEnd(t, i + 1) ELSE i - 1

\* CITATION_RE matched at position i: the index of the closing bracket, 0 if
\* the pattern \[(\d{4}\.\d{5}v\d+)\] does not match there
CitationMatchEnd(t, i) ==
    LET dot == i + YearMonthDigits + 1
        v == dot + NumberDigits + 1
        last == DigitRunEnd(t, v + 1)
    IN IF /\ i <= Len(t) /\ t[i] = "["
          /\ AllDigits(t, i + 1, dot - 1)
          /\ dot <= Len(t) /\ t[dot] = "."
          /\ AllDigits(t, dot + 1, v - 1)
          /\ v <= Len(t) /\ t[v] = "v"
          /\ last >= v + 1
          /\ last + 1 <= Len(t) /\ t[last + 1] = "]"
       THEN last + 1
       ELSE 0

\* the positions from i on where CITATION_RE matches
CitationStarts(t, i) == {p \in i..Len(t) : CitationMatchEnd(t, p) > 0}

\* CITATION_RE.finditer(answer): group(1) of the non-overlapping matches, left to right
RECURSIVE FindCitations(_, _)
FindCitations(t, i) ==
    IF CitationStarts(t, i) = {} THEN <<>>
    ELSE LET p == CHOOSE x \in CitationStarts(t, i) : \A y \in CitationStarts(t, i) : x <= y
         IN <<SubSeq(t, p + 1, CitationMatchEnd(t, p) - 1)>> \o FindCitations(t, CitationMatchEnd(t, p) + 1)

\* lines 23-30: keep a match only if it was not seen before
RECURSIVE UniqueInOrder(_, _)
UniqueInOrder(ms, seen) ==
    IF ms = <<>> THEN <<>>
    ELSE IF ms[1] \in seen THEN UniqueInOrder(Tail(ms), seen)
    ELSE <<ms[1]>> \o UniqueInOrder(Tail(ms), seen \cup {ms[1]})

\* extract_used_ids without the seen set
extract_used_ids_all(answer) == FindCitations(answer, 1)

extract_used_ids(answer) == UniqueInOrder(FindCitations(answer, 1), {})

Bracketed(id) == <<"[">> \o id \o <<"]">>

\* the answers of the extraction model: concatenations of these pieces
AnswerPieces ==
    { Bracketed(Id1), Bracketed(Id2 \o <<"2">>), Bracketed(<<"2", "5", "1", "0", ".", "0", "2", "9", "6", "v", "1">>), Id1, <<"[">>, <<"]">>, <<"x">> }

ExInit ==
    /\ ex_answer \in {Concat(ps) : ps \in SeqsUpTo(AnswerPieces, MaxAnswerPieces)}
    /\ ex_result = <<>>
    /\ ex_pc = "call"

ExCall ==
    /\ ex_pc = "call"
    /\ ex_result' = extract_used_ids(ex_answer)
    /\ ex_pc' = "done"
    /\ UNCHANGED <<ex_answer, NotEx>>

InitExtract == ExInit /\ QIdle /\ TrIdle /\ GIdle /\ AIdle /\ FIdle /\ CIdle
NextExtract == ExCall
SpecExtract == InitExtract /\ [][NextExtract]_vars

----------------------------------------------------------------------------
(* Retriever, retriever.py:47-168 *)

InitialK == 2           \* vector_store.initial_retrieval_k
TopK == 2               \* vector_store.top_k
MaxAbsChars == 3        \* vector_store.max_abstract_chars_per_doc
Id3 == <<"2", "5", "1", "1", ".", "0", "1", "1", "1", "1", "v", "2">>

\* the indexed table: doc_idx -> id, title, abstract; the paper Id1 was
\* collected under two categories and is indexed twice
Corpus ==
    << [id |-> Id1, title |-> <<"T">>, abstract |-> <<"a", ".", " ", "b">>],
       [id |-> Id2, title |-> <<"U">>, abstract |-> <<"c", ".">>],
       [id |-> Id1, title |-> <<"T">>, abstract |-> <<"a", ".", " ", "b">>],
       [id |-> Id3, title |-> <<"V">>, abstract |-> <<"d", " ", " ", "e">>] >>

Distances == {1, 2}         \* the index's _distance, smaller is closer
Scores == {1, 2}            \* the cross-encoder's scores
ContextBudgets == {42, 85, 300}     \* vector_store.max_context_chars

\* the results the index may return for a limit: rows of distinct table
\* entries, each with a distance, in the order the index hands them out
SearchResults(limit) ==
    { rs \in SeqsUpTo((1..Len(Corpus)) \X Distances, Min2(limit, Len(Corpus))) :
        \A i \in 1..Len(rs) : \A j \in 1..Len(rs) : i # j => rs[i][1] # rs[j][1] }

\* lines 134-144: one RetrievedDoc per row, the abstract truncated
MakeCandidate(row, max_abs) ==
    [doc_idx |-> row[1],
     doc_id |-> Corpus[row[1]].id,
     title |-> Corpus[row[1]].title,
     abstract |-> truncate_by_sentences(Corpus[row[1]].abstract, max_abs),
     distance |-> row[2],
     rerank_score |-> Absent]

\* index of doc_id in the dict best (0 if absent)
BestIndex(best, doc_id) ==
    IF \E i \in 1..Len(best) : best[i].doc_id = doc_id
    THEN CHOOSE i \in 1..Len(best) : best[i].doc_id = doc_id
    ELSE 0

\* the dedup loop without the distance comparison: the first occurrence stays
RECURSIVE DedupKeepFirst(_, _)
DedupKeepFirst(docs, best) ==
    IF docs = <<>> THEN best
    ELSE IF BestIndex(best, docs[1].doc_id) = 0
         THEN DedupKeepFirst(Tail(docs), Append(best, docs[1]))
         ELSE DedupKeepFirst(Tail(docs), best)

\* lines 91-95: best[d.doc_id] = d if the id is new or d is strictly closer;
\* the dict keeps the position of the first insertion of a key
RECURSIVE DedupFold(_, _)
DedupFold(docs, best) ==
    IF docs = <<>> THEN best
    ELSE LET d == docs[1]
             i == BestIndex(best, d.doc_id)
         IN IF i = 0 THEN DedupFold(Tail(docs), Append(best, d))
            ELSE IF d.distance < best[i].distance
                 THEN DedupFold(Tail(docs), [best EXCEPT ![i] = d])
                 ELSE DedupFold(Tail(docs), best)

_dedup_keep_first(docs) == DedupKeepFirst(docs, <<>>)

\* _dedup_by_id_keep_best_distance, lines 90-96
_dedup_by_id_keep_best_distance(docs) == DedupFold(docs, <<>>)

\* insert d behind every element whose score is at least d's (stable, descending)
RECURSIVE InsertDesc(_, _)
InsertDesc(sorted, d) ==
    IF sorted = <<>> THEN <<d>>
    ELSE IF sorted[1].rerank_score[1] >= d.rerank_score[1]
         THEN <<sorted[1]>> \o InsertDesc(Tail(sorted), d)
         ELSE <<d>> \o sorted

RECURSIVE SortDesc(_, _)
SortDesc(docs, sorted) ==
    IF docs = <<>> THEN sorted ELSE SortDesc(Tail(docs), InsertDesc(sorted, docs[1]))

\* _rerank, lines 98-119: scores[i] is the cross-encoder's score of docs[i]
_rerank(use_reranker, docs, scores) ==
    IF ~use_reranker \/ docs = <<>> THEN docs
    ELSE SortDesc([i \in 1..Len(docs) |-> [docs[i] EXCEPT !.rerank_score = Some(scores[i])]], <<>>)

S_DOC == <<"D", "O", "C", " ", "[">>
S_CLOSE == <<"]", "\n">>
S_TITLE == <<"T", "i", "t", "l", "e", ":", " ">>
S_ABSTRACT == <<"A", "b", "s", "t", "r", "a", "c", "t", ":", " ">>
S_SEP == <<"\n", "-", "-", "-", "\n">>

\* lines 51-55: the text block of one document
Block(d) ==
    S_DOC \o d.doc_id \o S_CLOSE \o S_TITLE \o d.title \o <<"\n">> \o S_ABSTRACT \o d.abstract \o <<"\n">>

\* the same loop with continue in place of break: a block that does not fit is
\* skipped and later blocks are still tried
RECURSIVE TakeBlocksSkipping(_, _, _)
TakeBlocksSkipping(docs, total, max_chars) ==
    IF docs = <<>> THEN <<>>
    ELSE IF total + Len(Block(docs[1])) > max_chars THEN TakeBlocksSkipping(Tail(docs), total, max_chars)
    ELSE <<Block(docs[1])>> \o TakeBlocksSkipping(Tail(docs), total + Len(Block(docs[1])), max_chars)

\* lines 48-59: the blocks of the leading documents that fit the budget
RECURSIVE TakeBlocks(_, _, _)
TakeBlocks(docs, total, max_chars) ==
    IF docs = <<>> THEN <<>>
    ELSE IF total + Len(Block(docs[1])) > max_chars THEN <<>>
    ELSE <<Block(docs[1])>> \o TakeBlocks(Tail(docs), total + Len(Block(docs[1])), max_chars)

\* _format_context, lines 47-60
_format_context(docs, max_chars) == Join(TakeBlocks(docs, 0, max_chars), S_SEP)

\* ranked[:k] for k >= 0
Prefix(xs, k) == SubSeq(xs, 1, Min2(k, Len(xs)))

\* lines 151-162: the citation of every selected document, one per doc_id
RECURSIVE CitationsOf(_, _)
CitationsOf(docs, seen) ==
    IF docs = <<>> THEN <<>>
    ELSE IF docs[1].doc_id \in seen THEN CitationsOf(Tail(docs), seen)
    ELSE << [id |-> docs[1].doc_id, title |-> docs[1].title,
             distance |-> docs[1].distance, rerank_score |-> docs[1].rerank_score] >>
         \o CitationsOf(Tail(docs), seen \cup {docs[1].doc_id})

\* line 122: k = self.top_k if k is None else int(k)
EffectiveK == IF req.top_k = Absent THEN cfg.top_k ELSE req.top_k[1]

----------------------------------------------------------------------------
(* filter_citations, filter_context_by_ids and the /answer handler, app.py:32-112 *)

\* the positions from i on where the separator of DOC_SPLIT_RE starts
SepStarts(t, i) ==
    {p \in i..(Len(t) - Len(S_SEP) + 1) : SubSeq(t, p, p + Len(S_SEP) - 1) = S_SEP}

\* DOC_SPLIT_RE.split(t): the pieces between the non-overlapping separators,
\* found left to right; start is where the current piece begins
RECURSIVE SplitSep(_, _)
SplitSep(t, start) ==
    IF SepStarts(t, start) = {} THEN <<SubSeq(t, start, Len(t))>>
    ELSE LET p == CHOOSE x \in SepStarts(t, start) : \A y \in SepStarts(t, start) : x <= y
         IN <<SubSeq(t, start, p - 1)>> \o SplitSep(t, p + Len(S_SEP))

\* \s*$ at position k (MULTILINE): whitespace, then the end of a line or of the text
BlankToLineEnd(t, k) ==
    LET e == IF k <= Len(t) /\ IsSpace(t[k]) THEN WsRunEnd(t, k) ELSE k - 1
    IN \E x \in k..(e + 1) : x = Len(t) + 1 \/ t[x] = "\n"

\* the closing brackets that end a header opened at position open: (.*?)\]\s*$
HeaderCloses(t, open) ==
    { j \in (open + 1)..Len(t) :
        /\ t[j] = "]"
        /\ \A k \in (open + 1)..(j - 1) : t[k] # "\n"
        /\ BlankToLineEnd(t, j + 1) }

\* position of the opening bracket of ^DOC\s+\[ matched at line start p (0 if none)
HeaderOpen(t, p) ==
    IF /\ (p = 1 \/ t[p - 1] = "\n")
       /\ p + 3 <= Len(t)
       /\ SubSeq(t, p, p + 2) = <<"D", "O", "C">>
       /\ IsSpace(t[p + 3])
       /\ WsRunEnd(t, p + 3) + 1 <= Len(t)
       /\ t[WsRunEnd(t, p + 3) + 1] = "["
    THEN WsRunEnd(t, p + 3) + 1
    ELSE 0

HeaderMatches(t, p) == HeaderOpen(t, p) > 0 /\ HeaderCloses(t, HeaderOpen(t, p)) # {}

SetMin(S) == CHOOSE x \in S : \A y \in S : x <= y

\* DOC_ID_RE.search(t): group(1) of the leftmost match, Absent without a match
DocIdSearch(t) ==
    LET ps == {p \in 1..Len(t) : HeaderMatches(t, p)}
    IN IF ps = {} THEN Absent
       ELSE LET open == HeaderOpen(t, SetMin(ps))
            IN Some(SubSeq(t, open + 1, SetMin(HeaderCloses(t, open)) - 1))

\* by_id[key] = value on a dict kept as a sequence of [id, block]
DictPut(by_id, key, value) ==
    IF \E i \in 1..Len(by_id) : by_id[i].id = key
    THEN [i \in 1..Len(by_id) |-> IF by_id[i].id = key THEN [id |-> key, block |-> value] ELSE by_id[i]]
    ELSE Append(by_id, [id |-> key, block |-> value])

\* lines 44-48: the stripped block of every piece with a header, by its id
RECURSIVE BlocksById(_, _)
BlocksById(blocks, by_id) ==
    IF blocks = <<>> THEN by_id
    ELSE LET b == Strip(blocks[1])
             id == DocIdSearch(b)
         IN BlocksById(Tail(blocks), IF id = Absent THEN by_id ELSE DictPut(by_id, id[1], b))

DictGet(by_id, key) == (CHOOSE i \in 1..Len(by_id) : by_id[i].id = key)

\* line 51: [by_id[cid] for cid in used_ids if cid in by_id]
RECURSIVE PickBlocks(_, _)
PickBlocks(by_id, used_ids) ==
    IF used_ids = <<>> THEN <<>>
    ELSE IF \E i \in 1..Len(by_id) : by_id[i].id = used_ids[1]
         THEN <<by_id[DictGet(by_id, used_ids[1])].block>> \o PickBlocks(by_id, Tail(used_ids))
         ELSE PickBlocks(by_id, Tail(used_ids))

\* filter_context_by_ids with the blocks left in the order of the context
filter_context_in_context_order(retrieved_context, used_ids) ==
    IF retrieved_context = <<>> THEN <<>>
    ELSE LET by_id == BlocksById(SplitSep(retrieved_context, 1), <<>>)
         IN SelectSeq([i \in 1..Len(by_id) |-> by_id[i].block],
                      LAMBDA b : \E k \in 1..Len(used_ids) : DocIdSearch(b) = Some(used_ids[k]))

\* filter_context_by_ids, lines 36-51
filter_context_by_ids(retrieved_context, used_ids) ==
    IF retrieved_context = <<>> THEN <<>>
    ELSE PickBlocks(BlocksById(SplitSep(retrieved_context, 1), <<>>), used_ids)

\* filter_citations ordered by used_ids instead of by the citation list
RECURSIVE filter_citations_by_used(_, _)
filter_citations_by_used(all_citations, used_ids) ==
    IF used_ids = <<>> THEN <<>>
    ELSE SelectSeq(all_citations, LAMBDA c : c.doc_id = used_ids[1])
         \o filter_citations_by_used(all_citations, Tail(used_ids))

\* filter_citations, lines 32-34
filter_citations(all_citations, used_ids) ==
    SelectSeq(all_citations, LAMBDA c : \E k \in 1..Len(used_ids) : c.doc_id = used_ids[k])

\* lines 81-90: the citations of the retriever under the response's keys
AllCitations(citations) ==
    [i \in 1..Len(citations) |->
        [doc_id |-> citations[i].id, title |-> citations[i].title,
         distance |-> citations[i].distance, rerank_score |-> citations[i].rerank_score,
         url |-> None]]

\* line 100 without the test for an empty context
FallbackContextAlways(retrieved_context) == <<retrieved_context>>

\* line 100: [r.get("retrieved_context", "")] if r.get("retrieved_context") else []
FallbackContext(retrieved_context) ==
    IF retrieved_context # <<>> THEN <<retrieved_context>> ELSE <<>>

\* lines 81-112: the payload built from the retrieval result and the answer
BuildPayload(res, ans, request) ==
    LET all_citations == AllCitations(res.citations)
        used_ids == extract_used_ids(ans)
        citations == IF used_ids # <<>> THEN filter_citations(all_citations, used_ids)
                     ELSE all_citations
        ctx_blocks == IF used_ids # <<>> THEN filter_context_by_ids(res.retrieved_context, used_ids)
                      ELSE FallbackContext(res.retrieved_context)
    IN [answer |-> ans,
        citations |-> citations,
        retrieved_context |-> ctx_blocks,
        used_ids |-> used_ids,
        debug |-> IF request.debug THEN Some([query |-> request.query, top_k |-> request.top_k]) ELSE Absent]

BlankQuery == <<" ">>
\* the queries a request may carry: a word, the empty string, blank strings
Queries == {<<"q">>, <<>>, BlankQuery, <<"\n", " ">>}

AInit ==
    /\ cfg \in [top_k : {TopK}, initial_k : {InitialK}, max_context_chars : ContextBudgets,
                 max_abs_chars : {MaxAbsChars}, use_reranker : BOOLEAN]
    /\ req \in [query : Queries, top_k : {Absent, Some(1)}, debug : BOOLEAN]
    /\ a_pc = "start"
    /\ rows = <<>>
    /\ candidates = <<>>
    /\ ranked = <<>>
    /\ r = None
    /\ payload = None
    /\ llm = "answer_texts"
    /\ g_args = <<>>
    /\ g_messages = <<>>
    /\ g_out = <<>>
    /\ g_calls = <<>>
    /\ g_pc = "idle"

\* the same test without the strip(): only the empty string is rejected
AValidateEmptyOnly ==
    /\ a_pc = "start"
    /\ a_pc' = IF req.query = <<>> THEN "rejected" ELSE "search"
    /\ UNCHANGED <<cfg, req, rows, candidates, ranked, r, payload, gvars, NotA>>

\* lines 68-69: an empty or blank query is answered with HTTP 400
AValidate ==
    /\ a_pc = "start"
    /\ a_pc' = IF Strip(req.query) = <<>> THEN "rejected" ELSE "search"
    /\ UNCHANGED <<cfg, req, rows, candidates, ranked, r, payload, gvars, NotA>>

\* retrieve, lines 122-144: embed the query, search the index, build the candidates
RSearch ==
    /\ a_pc = "search"
    /\ \E rs \in SearchResults(Max2(cfg.initial_k, EffectiveK)) :
          /\ rows' = rs
          /\ candidates' = [i \in 1..Len(rs) |-> MakeCandidate(rs[i], cfg.max_abs_chars)]
    /\ a_pc' = "dedup"
    /\ UNCHANGED <<cfg, req, ranked, r, payload, gvars, NotA>>

\* the embedding model or the index raises
RSearchRaises ==
    /\ a_pc = "search"
    /\ a_pc' = "failed"
    /\ UNCHANGED <<cfg, req, rows, candidates, ranked, r, payload, gvars, NotA>>

\* line 146
RDedup ==
    /\ a_pc = "dedup"
    /\ candidates' = _dedup_by_id_keep_best_distance(candidates)
    /\ a_pc' = "rerank"
    /\ UNCHANGED <<cfg, req, rows, ranked, r, payload, gvars, NotA>>

\* line 148
RRerank ==
    /\ a_pc = "rerank"
    /\ \E scores \in [1..Len(candidates) -> Scores] :
          ranked' = _rerank(cfg.use_reranker, candidates, scores)
    /\ a_pc' = "format"
    /\ UNCHANGED <<cfg, req, rows, candidates, r, payload, gvars, NotA>>

\* line 104: the cross-encoder raises
RRerankRaises ==
    /\ a_pc = "rerank"
    /\ cfg.use_reranker /\ candidates # <<>>
    /\ a_pc' = "failed"
    /\ UNCHANGED <<cfg, req, rows, candidates, ranked, r, payload, gvars, NotA>>

\* lines 149-168: select the top k, build the citations and the context, return
RReturn ==
    /\ a_pc = "format"
    /\ LET final_docs == Prefix(ranked, EffectiveK)
       IN r' = [retrieved_context |-> _format_context(final_docs, cfg.max_context_chars),
                citations |-> CitationsOf(final_docs, {}),
                ranked |-> ranked]
    /\ rows' = <<>>
    /\ candidates' = <<>>
    /\ ranked' = <<>>
    /\ a_pc' = "retrieved"
    /\ UNCHANGED <<cfg, req, payload, gvars, NotA>>

\* line 76: run_rag calls generator.generate(req.query, r["retrieved_context"])
ACallGenerate ==
    /\ a_pc = "retrieved"
    /\ g_args' = [query |-> req.query, context |-> r.retrieved_context]
    /\ g_messages' = <<>>
    /\ g_out' = <<>>
    /\ g_calls' = <<>>
    /\ g_pc' = "start"
    /\ a_pc' = "generating"
    /\ UNCHANGED <<cfg, req, rows, candidates, ranked, r, payload, llm, NotA>>

\* the same step with the exception caught and generate called again
AGenerateRaisedCallAgain ==
    /\ a_pc = "generating"
    /\ g_pc = "raised"
    /\ Len(g_calls) < 3
    /\ g_pc' = "start"
    /\ UNCHANGED <<cfg, req, a_pc, rows, candidates, ranked, r, payload, llm, g_args, g_messages, g_out, g_calls, NotA>>

\* the backend raised inside generate: the exception leaves run_rag and answer
AGenerateRaised ==
    /\ a_pc = "generating"
    /\ g_pc = "raised"
    /\ a_pc' = "failed"
    /\ UNCHANGED <<cfg, req, rows, candidates, ranked, r, payload, gvars, NotA>>

\* lines 77-112: generate returned; reconcile the citations and build the payload
AReconcile ==
    /\ a_pc = "generating"
    /\ GReturned
    /\ payload' = BuildPayload(r, g_out, req)
    /\ a_pc' = "done"
    /\ UNCHANGED <<cfg, req, rows, candidates, ranked, r, gvars, NotA>>

ANext ==
    \/ AValidate
    \/ RSearch
    \/ RSearchRaises
    \/ RDedup
    \/ RRerank
    \/ RRerankRaises
    \/ RReturn
    \/ ACallGenerate
    \/ GFirstCall
    \/ GFirstCallRaises
    \/ GAccept
    \/ GReject
    \/ GRetryCall
    \/ GRetryCallRaises
    \/ AGenerateRaised
    \/ AReconcile

Init == AInit /\ QIdle /\ TrIdle /\ ExIdle /\ FIdle /\ CIdle
Next == ANext
Spec == Init /\ [][Next]_vars

----------------------------------------------------------------------------
(* Several /answer requests in flight, app.py:66-112 with startup.py:10-14.
   Each request runs run_rag on a worker thread; the Retriever and the
   AnswerGenerator of app.state are shared. A step is what one request does up
   to and including its next backend call: everything between two backend
   calls works on locals of that request's frames. *)

Requests == {1, 2}

\* app.state after lifespan: the attributes retrieve and generate read
ConcConfig ==
    [retriever |-> [top_k |-> TopK, initial_k |-> InitialK, max_context_chars |-> 300,
                    max_abs_chars |-> MaxAbsChars, use_reranker |-> TRUE],
     generator |-> [temperature |-> Temperature]]

\* the requests of the concurrent model
ConcRequests == [query : {<<"q">>, BlankQuery}, top_k : {Absent, Some(1)}, debug : {FALSE}]

\* what the index may return in the concurrent model, cut at the limit
ConcSearchResults(limit) ==
    { Prefix(rs, limit) : rs \in { << <<1, 1>>, <<3, 2>> >>, << <<2, 2>>, <<4, 1>> >> } }

\* the scores the cross-encoder may return for n pairs
ConcScores(n) == { [i \in 1..n |-> 1], [i \in 1..n |-> IF i = 1 THEN 1 ELSE 2] }

\* the texts the chat backend may return in the concurrent model
ConcTexts ==
    { <<"[">> \o Id1 \o <<"]">> \o SourcesUsed,
      <<"[">> \o Id2 \o <<"]", "[">> \o Id1 \o <<"]">> \o SourcesUsed,
      <<"x">> }

\* retriever.py line 122 for a request and the retriever's attributes
KOf(request, rcfg) == IF request.top_k = Absent THEN rcfg.top_k ELSE request.top_k[1]

\* retriever.py lines 134-146: the candidates of the rows, deduplicated
CandidatesOf(rs, rcfg) ==
    _dedup_by_id_keep_best_distance([i \in 1..Len(rs) |-> MakeCandidate(rs[i], rcfg.max_abs_chars)])

\* retriever.py lines 148-168: the result of retrieve for ranked documents
ResultOf(ranked_docs, k, rcfg) ==
    [retrieved_context |-> _format_context(Prefix(ranked_docs, k), rcfg.max_context_chars),
     citations |-> CitationsOf(Prefix(ranked_docs, k), {}),
     ranked |-> ranked_docs]

CInit ==
    /\ c_shared = ConcConfig
    /\ c_req \in [Requests -> ConcRequests]
    /\ c_pc = [i \in Requests |-> "start"]
    /\ c_k = [i \in Requests |-> 0]
    /\ c_rows = [i \in Requests |-> <<>>]
    /\ c_scores = [i \in Requests |-> <<>>]
    /\ c_r = [i \in Requests |-> Absent]
    /\ c_calls = [i \in Requests |-> <<>>]
    /\ c_out = [i \in Requests |-> <<>>]
    /\ c_payload = [i \in Requests |-> Absent]

\* app.py lines 68-72
CValidate(i) ==
    /\ c_pc[i] = "start"
    /\ c_pc' = [c_pc EXCEPT ![i] = IF Strip(c_req[i].query) = <<>> THEN "rejected" ELSE "search"]
    /\ UNCHANGED <<c_shared, c_req, c_k, c_rows, c_scores, c_r, c_calls, c_out, c_payload, NotC>>

\* the same step with k kept in the retriever (self.top_k = k) instead of a local
CSearchStoresK(i) ==
    /\ c_pc[i] = "search"
    /\ LET k == KOf(c_req[i], c_shared.retriever)
       IN /\ c_shared' = [c_shared EXCEPT !.retriever.top_k = k]
          /\ c_k' = [c_k EXCEPT ![i] = k]
          /\ \E rs \in ConcSearchResults(Max2(c_shared.retriever.initial_k, k)) :
                c_rows' = [c_rows EXCEPT ![i] = rs]
    /\ c_pc' = [c_pc EXCEPT ![i] = "rerank"]
    /\ UNCHANGED <<c_req, c_scores, c_r, c_calls, c_out, c_payload, NotC>>

\* retriever.py lines 122-132: k, initial_k, the query embedding and the index search
CSearch(i) ==
    /\ c_pc[i] = "search"
    /\ LET k == KOf(c_req[i], c_shared.retriever)
       IN /\ c_k' = [c_k EXCEPT ![i] = k]
          /\ \E rs \in ConcSearchResults(Max2(c_shared.retriever.initial_k, k)) :
                c_rows' = [c_rows EXCEPT ![i] = rs]
    /\ c_pc' = [c_pc EXCEPT ![i] = "rerank"]
    /\ UNCHANGED <<c_shared, c_req, c_scores, c_r, c_calls, c_out, c_payload, NotC>>

\* the embedding model or the index raises
CSearchRaises(i) ==
    /\ c_pc[i] = "search"
    /\ c_pc' = [c_pc EXCEPT ![i] = "failed"]
    /\ UNCHANGED <<c_shared, c_req, c_k, c_rows, c_scores, c_r, c_calls, c_out, c_payload, NotC>>

\* retriever.py lines 134-168: candidates, dedup, the cross-encoder, the result
CRerank(i) ==
    /\ c_pc[i] = "rerank"
    /\ LET docs == CandidatesOf(c_rows[i], c_shared.retriever)
       IN \E scores \in ConcScores(Len(docs)) :
            /\ c_scores' = [c_scores EXCEPT ![i] = scores]
            /\ c_r' = [c_r EXCEPT ![i] =
                          Some(ResultOf(_rerank(c_shared.retriever.use_reranker, docs, scores),
                                        c_k[i], c_shared.retriever))]
    /\ c_pc' = [c_pc EXCEPT ![i] = "generate"]
    /\ UNCHANGED <<c_shared, c_req, c_k, c_rows, c_calls, c_out, c_payload, NotC>>

\* retriever.py line 104: the cross-encoder raises
CRerankRaises(i) ==
    /\ c_pc[i] = "rerank"
    /\ c_shared.retriever.use_reranker
    /\ CandidatesOf(c_rows[i], c_shared.retriever) # <<>>
    /\ c_pc' = [c_pc EXCEPT ![i] = "failed"]
    /\ UNCHANGED <<c_shared, c_req, c_k, c_rows, c_scores, c_r, c_calls, c_out, c_payload, NotC>>

\* app.py line 76, generator.py lines 112-140: the messages, the first call, the check
CFirstCall(i) ==
    /\ c_pc[i] = "generate"
    /\ LET msgs == build_messages(c_req[i].query, c_r[i][1].retrieved_context)
       IN \E raw \in ConcTexts :
            /\ c_out' = [c_out EXCEPT ![i] = Strip(raw)]
            /\ c_calls' = [c_calls EXCEPT ![i] =
                    Append(@, [temp |-> c_shared.generator.temperature, msgs |-> msgs, out |-> Strip(raw)])]
            /\ c_pc' = [c_pc EXCEPT ![i] = IF _is_compliant(Strip(raw)) THEN "respond" ELSE "retry"]
    /\ UNCHANGED <<c_shared, c_req, c_k, c_rows, c_scores, c_r, c_payload, NotC>>

\* the first backend call raises
CFirstCallRaises(i) ==
    /\ c_pc[i] = "generate"
    /\ c_pc' = [c_pc EXCEPT ![i] = "failed"]
    /\ UNCHANGED <<c_shared, c_req, c_k, c_rows, c_scores, c_r, c_calls, c_out, c_payload, NotC>>

\* generator.py lines 141-154: the retry call
CRetryCall(i) ==
    /\ c_pc[i] = "retry"
    /\ LET messages_retry == c_calls[i][1].msgs \o <<RetryMessage>>
       IN \E raw \in ConcTexts :
            /\ c_out' = [c_out EXCEPT ![i] = Strip(raw)]
            /\ c_calls' = [c_calls EXCEPT ![i] =
                    Append(@, [temp |-> 0, msgs |-> messages_retry, out |-> Strip(raw)])]
    /\ c_pc' = [c_pc EXCEPT ![i] = "respond"]
    /\ UNCHANGED <<c_shared, c_req, c_k, c_rows, c_scores, c_r, c_payload, NotC>>

\* the retry backend call raises
CRetryCallRaises(i) ==
    /\ c_pc[i] = "retry"
    /\ c_pc' = [c_pc EXCEPT ![i] = "failed"]
    /\ UNCHANGED <<c_shared, c_req, c_k, c_rows, c_scores, c_r, c_calls, c_out, c_payload, NotC>>

\* app.py lines 79-112: the payload of the request
CRespond(i) ==
    /\ c_pc[i] = "respond"
    /\ c_payload' = [c_payload EXCEPT ![i] = Some(BuildPayload(c_r[i][1], c_out[i], c_req[i]))]
    /\ c_pc' = [c_pc EXCEPT ![i] = "done"]
    /\ UNCHANGED <<c_shared, c_req, c_k, c_rows, c_scores, c_r, c_calls, c_out, NotC>>

CNext ==
    \/ \E i \in Requests : CValidate(i)
    \/ \E i \in Requests : CSearch(i)
    \/ \E i \in Requests : CSearchRaises(i)
    \/ \E i \in Requests : CRerank(i)
    \/ \E i \in Requests : CRerankRaises(i)
    \/ \E i \in Requests : CFirstCall(i)
    \/ \E i \in Requests : CFirstCallRaises(i)
    \/ \E i \in Requests : CRetryCall(i)
    \/ \E i \in Requests : CRetryCallRaises(i)
    \/ \E i \in Requests : CRespond(i)

InitConc == CInit /\ QIdle /\ TrIdle /\ GIdle /\ ExIdle /\ AIdle /\ FIdle
NextConc == CNext
SpecConc == InitConc /\ [][NextConc]_vars

----------------------------------------------------------------------------
(* C1: for strictly positive weights and max_papers >= number of categories,
   the quotas returned by compute_category_targets sum to exactly max_papers
   and every quota is at least 1. *)
AllPositive(ws) == \A i \in 1..Len(ws) : ws[i] > 0

C1_QuotasSumToN ==
    (q_pc = "done" /\ AllPositive(cats) /\ max_papers >= Len(cats))
        => (SumSeq(targets) = max_papers /\ \A i \in 1..Len(targets) : targets[i] >= 1)

(* C6 as stated: the result of truncate_by_sentences is never longer than
   max_chars plus the length of the ellipsis marker, and an input of length
   at most max_chars is returned exactly, character for character. *)
C6_AsStated ==
    tr_pc = "done" =>
        /\ Len(tr_result) <= tr_max_chars + Len(EllipsisMarker)
        /\ (Len(tr_text) <= tr_max_chars => tr_result = tr_text)

\* the words of a text: its maximal runs of non-whitespace characters
RECURSIVE WordsOf(_, _)
WordsOf(t, cur) ==
    IF t = <<>> THEN (IF cur = <<>> THEN <<>> ELSE <<cur>>)
    ELSE IF IsSpace(t[1]) THEN (IF cur = <<>> THEN <<>> ELSE <<cur>>) \o WordsOf(Tail(t), <<>>)
    ELSE WordsOf(Tail(t), Append(cur, t[1]))

WsNormalised(t) == Join(WordsOf(t, <<>>), <<" ">>)

(* C6 amended: for max_chars >= 0 the result is never longer than max_chars
   plus the length of the marker " …"; when the whitespace-normalised input
   (whitespace runs collapsed to one space, leading and trailing whitespace
   removed) has length at most max_chars, the result is exactly that
   normalised text, which is the input itself only when the input is already
   in that form. *)
C6_TruncateBound ==
    tr_pc = "done" =>
        /\ Len(tr_result) <= tr_max_chars + Len(EllipsisMarker)
        /\ (Len(WsNormalised(tr_text)) <= tr_max_chars => tr_result = WsNormalised(tr_text))
        /\ (Len(WsNormalised(tr_text)) <= tr_max_chars =>
                (tr_result = tr_text <=> tr_text = WsNormalised(tr_text)))

\* a text with two sentences is cut after the first one
C6_Witness ==
    /\ tr_pc = "done"
    /\ tr_text = <<"a", ".", " ", "\n", "a">>
    /\ tr_max_chars = 3
    /\ tr_result = <<"a", ".", " ", Ellipsis>>

(* C2: every call of generate invokes the backend exactly once when the first
   output passes the compliance check and exactly twice when it does not; the
   check is applied to the first output only, the second output is returned
   as it is, and there is never a third backend call. *)
C2_BoundedRetry ==
    /\ Len(g_calls) <= 2
    /\ (g_pc \in {"drafted", "accepted"} => Len(g_calls) = 1)
    /\ (g_pc = "accepted" => (_is_compliant(g_calls[1].out) /\ g_out = g_calls[1].out))
    /\ (g_pc \in {"retrying", "final"} => ~_is_compliant(g_calls[1].out))
    /\ (g_pc = "final" => (Len(g_calls) = 2 /\ g_out = g_calls[2].out))

\* generate returned a retry output that is itself not compliant
C2_Witness ==
    /\ g_pc = "final"
    /\ Len(g_calls) = 2
    /\ g_out = SourcesUsedNoColon \o <<"[", "]">>
    /\ ~_is_compliant(g_out)

\* position of a bracket pair: an opening bracket followed later by a closing one
HasBracketPair(t) == \E i \in 1..Len(t) : \E j \in (i + 1)..Len(t) : t[i] = "[" /\ t[j] = "]"

\* the literal phrase starts at some position of the text
HasSourcesPhrase(t) ==
    \E i \in 1..Len(t) :
        /\ i + Len(SourcesUsed) - 1 <= Len(t)
        /\ \A k \in 1..Len(SourcesUsed) : t[i + k - 1] = SourcesUsed[k]

(* C3: the compliance check accepts a text exactly when it holds the literal
   "Sources used:" and a bracket pair, an opening '[' followed later by a
   closing ']'; it rejects every text that lacks the phrase or the pair. *)
C3_CompliantIffPhraseAndPair ==
    /\ (g_pc = "accepted" => (HasSourcesPhrase(g_calls[1].out) /\ HasBracketPair(g_calls[1].out)))
    /\ (g_pc = "retrying" => ~(HasSourcesPhrase(g_calls[1].out) /\ HasBracketPair(g_calls[1].out)))

\* the shape of a citation identifier: four digits, a dot, five digits, "v", digits
IsCitationId(w) ==
    /\ Len(w) >= 12
    /\ \A k \in 1..4 : w[k] \in Digits
    /\ w[5] = "."
    /\ \A k \in 6..10 : w[k] \in Digits
    /\ w[11] = "v"
    /\ \A k \in 12..Len(w) : w[k] \in Digits

\* t[i..j] is a bracketed citation marker
IsMarker(t, i, j) == t[i] = "[" /\ t[j] = "]" /\ IsCitationId(SubSeq(t, i + 1, j - 1))

CitedIds(t) ==
    {SubSeq(t, i + 1, j - 1) : <<i, j>> \in {p \in (1..Len(t)) \X (1..Len(t)) : p[1] < p[2] /\ IsMarker(t, p[1], p[2])}}

\* position of the first marker of id in t
FirstMarkerPos(t, id) ==
    CHOOSE i \in 1..Len(t) :
        /\ i + Len(id) + 1 <= Len(t)
        /\ SubSeq(t, i, i + Len(id) + 1) = Bracketed(id)
        /\ \A k \in 1..(i - 1) : ~(k + Len(id) + 1 <= Len(t) /\ SubSeq(t, k, k + Len(id) + 1) = Bracketed(id))

(* C7: extract_used_ids returns exactly the identifiers that occur in the text
   as a bracketed citation marker (four digits, dot, five digits, 'v', one or
   more digits), each once, ordered by the position of its first occurrence. *)
C7_ExtractFirstSeen ==
    ex_pc = "done" =>
        /\ {ex_result[k] : k \in 1..Len(ex_result)} = CitedIds(ex_answer)
        /\ \A k \in 1..Len(ex_result) : \A l \in 1..Len(ex_result) :
                k < l => /\ ex_result[k] # ex_result[l]
                         /\ FirstMarkerPos(ex_answer, ex_result[k]) < FirstMarkerPos(ex_answer, ex_result[l])

\* two markers interleaved, the first one repeated
C7_Witness ==
    /\ ex_pc = "done"
    /\ ex_answer = Bracketed(Id1) \o Bracketed(Id2 \o <<"2">>) \o <<"x">> \o Bracketed(Id1)
    /\ ex_result = <<Id1, Id2 \o <<"2">>>>

(* C4: the context rendered by _format_context, the blocks joined with their
   separators as returned in retrieved_context, is never longer than
   max_context_chars. *)
C4_ContextWithinBudget ==
    a_pc = "retrieved" => Len(r.retrieved_context) <= cfg.max_context_chars

\* the doc_ids of the rows the index returned
RowIds == {Corpus[rows[i][1]].id : i \in 1..Len(rows)}

(* C5: _dedup_by_id_keep_best_distance returns exactly one entry for each
   doc_id of its input and no other entry, and the entry kept for a doc_id is
   an input occurrence whose distance is the minimum over the input
   occurrences of that doc_id. *)
C5_DedupKeepsBest ==
    a_pc = "rerank" =>
        /\ \A id \in RowIds : Cardinality({k \in 1..Len(candidates) : candidates[k].doc_id = id}) = 1
        /\ \A k \in 1..Len(candidates) :
              /\ \E i \in 1..Len(rows) :
                    /\ rows[i][1] = candidates[k].doc_idx
                    /\ rows[i][2] = candidates[k].distance
                    /\ Corpus[rows[i][1]].id = candidates[k].doc_id
              /\ \A i \in 1..Len(rows) :
                    Corpus[rows[i][1]].id = candidates[k].doc_id => candidates[k].distance <= rows[i][2]

\* the second occurrence of a doc_id is closer than the first and replaced it
C5_Witness ==
    /\ a_pc = "rerank"
    /\ rows = << <<1, 2>>, <<3, 1>> >>
    /\ Len(candidates) = 1
    /\ candidates[1].doc_idx = 3
    /\ candidates[1].distance = 1

UsedSet == {payload.used_ids[k] : k \in 1..Len(payload.used_ids)}

\* index of the retriever's citation with this doc_id
CitationPos(doc_id) == CHOOSE i \in 1..Len(r.citations) : r.citations[i].id = doc_id

(* C8: when at least one identifier was extracted, the citations of the
   response are exactly the entries of the retriever's citation list whose
   doc_id is among the extracted identifiers, in the order of the retriever's
   citation list. *)
C8_CitationsFiltered ==
    (a_pc = "done" /\ payload.used_ids # <<>>) =>
        LET cs == payload.citations
        IN /\ \A k \in 1..Len(cs) :
                /\ cs[k].doc_id \in UsedSet
                /\ \E i \in 1..Len(r.citations) :
                      /\ r.citations[i].id = cs[k].doc_id
                      /\ r.citations[i].title = cs[k].title
                      /\ r.citations[i].distance = cs[k].distance
                      /\ r.citations[i].rerank_score = cs[k].rerank_score
           /\ \A i \in 1..Len(r.citations) :
                r.citations[i].id \in UsedSet => \E k \in 1..Len(cs) : cs[k].doc_id = r.citations[i].id
           /\ \A k \in 1..Len(cs) : \A l \in 1..Len(cs) :
                k < l => CitationPos(cs[k].doc_id) < CitationPos(cs[l].doc_id)

\* the answer cites Id2 before Id1, the citation list has Id1 before Id2
C8_Witness ==
    /\ a_pc = "done"
    /\ payload.used_ids = <<Id2, Id1>>
    /\ Len(payload.citations) = 2
    /\ payload.citations[1].doc_id = Id1
    /\ payload.citations[2].doc_id = Id2

\* the documents whose blocks were rendered into the context
RenderedDocs ==
    SubSeq(r.ranked, 1, Len(TakeBlocks(Prefix(r.ranked, EffectiveK), 0, cfg.max_context_chars)))

\* the block of doc_id as the response shows it: without the final newline
RenderedBlock(doc_id) ==
    LET d == RenderedDocs[CHOOSE i \in 1..Len(RenderedDocs) : RenderedDocs[i].doc_id = doc_id]
    IN S_DOC \o d.doc_id \o <<"]", "\n">> \o S_TITLE \o d.title \o <<"\n">> \o S_ABSTRACT \o d.abstract

\* the extracted identifiers that have a rendered block, in extraction order
UsedAndRendered ==
    SelectSeq(payload.used_ids, LAMBDA id : \E i \in 1..Len(RenderedDocs) : RenderedDocs[i].doc_id = id)

(* C9: when at least one identifier was extracted, retrieved_context holds one
   block for each extracted identifier that has a rendered block, in
   extraction order, and nothing for an extracted identifier without a
   rendered block; an answer that cites only a never-retrieved identifier
   gets an empty retrieved_context while the identifier stays in used_ids. *)
C9_ContextFiltered ==
    (a_pc = "done" /\ payload.used_ids # <<>>) =>
        /\ Len(payload.retrieved_context) = Len(UsedAndRendered)
        /\ \A k \in 1..Len(UsedAndRendered) :
              payload.retrieved_context[k] = RenderedBlock(UsedAndRendered[k])
        /\ (payload.used_ids = <<Id9>> => payload.retrieved_context = <<>>)

\* both cited documents were rendered and come back in extraction order
C9_Witness ==
    /\ a_pc = "done"
    /\ payload.used_ids = <<Id2, Id1>>
    /\ Len(RenderedDocs) = 2
    /\ RenderedDocs[1].doc_id = Id1
    /\ Len(payload.retrieved_context) = 2
    /\ payload.retrieved_context[1] = RenderedBlock(Id2)

\* the only cited identifier was never retrieved although a context was rendered
C9_WitnessUnknownId ==
    /\ a_pc = "done"
    /\ payload.used_ids = <<Id9>>
    /\ r.retrieved_context # <<>>
    /\ payload.retrieved_context = <<>>

\* the response carries the retriever's whole citation list
FullCitationList ==
    /\ Len(payload.citations) = Len(r.citations)
    /\ \A i \in 1..Len(r.citations) :
          /\ payload.citations[i].doc_id = r.citations[i].id
          /\ payload.citations[i].title = r.citations[i].title
          /\ payload.citations[i].distance = r.citations[i].distance
          /\ payload.citations[i].rerank_score = r.citations[i].rerank_score

(* C10 as stated: when no identifier was extracted, the response carries the
   full citation list and a retrieved_context that is a one-element sequence
   holding the unsplit context string, for every retrieval result. *)
C10_AsStated ==
    (a_pc = "done" /\ payload.used_ids = <<>>) =>
        /\ FullCitationList
        /\ payload.retrieved_context = <<r.retrieved_context>>

(* C10 amended: when no identifier was extracted, the response carries the
   full citation list, and retrieved_context is a one-element sequence holding
   the unsplit context string when that string is not empty, and the empty
   sequence when the rendered context is empty. *)
C10_FallbackContext ==
    (a_pc = "done" /\ payload.used_ids = <<>>) =>
        /\ FullCitationList
        /\ (Len(r.retrieved_context) > 0 => payload.retrieved_context = <<r.retrieved_context>>)
        /\ (Len(r.retrieved_context) = 0 => Len(payload.retrieved_context) = 0)

\* nothing was cited, two documents were retrieved and rendered
C10_Witness ==
    /\ a_pc = "done"
    /\ payload.used_ids = <<>>
    /\ Len(payload.citations) = 2
    /\ Len(payload.retrieved_context) = 1
    /\ Len(payload.retrieved_context[1]) > Len(S_SEP)

----------------------------------------------------------------------------
(* C11: when the embedding, index or generation backend raises at any step
   of a request, the failure is the request's failure: a failed request takes
   no further step, the step after a raising generation call is the
   propagation of the failure and makes no backend call, and a failed request
   has no response payload. *)
C11_FailurePropagates ==
    /\ [](a_pc = "failed" => payload = None)
    /\ [][/\ a_pc # "failed"
          /\ (g_pc = "raised" => (a_pc' = "failed" /\ g_calls' = g_calls /\ r' = r))
          /\ (a_pc' = "failed" => (g_calls' = g_calls /\ payload' = None))]_vars

\* the retry call raised after a non-compliant first output, and the request failed
C11_Witness ==
    /\ a_pc = "failed"
    /\ g_pc = "raised"
    /\ Len(g_calls) = 2
    /\ payload = None

----------------------------------------------------------------------------
(* C12: a request whose query is empty or only whitespace is rejected, and for
   it neither retrieve nor generate is invoked: it never leaves the
   validation, no rows are searched, no retrieval result exists, generate is
   never started and no payload is built. *)
C12_BlankQueryRejected ==
    Strip(req.query) = <<>> =>
        /\ a_pc \in {"start", "rejected"}
        /\ rows = <<>> /\ candidates = <<>> /\ ranked = <<>>
        /\ r = None
        /\ g_pc = "idle" /\ g_calls = <<>>
        /\ payload = None

\* a query of whitespace only has been rejected
C12_Witness ==
    /\ a_pc = "rejected"
    /\ req.query # <<>>
    /\ Strip(req.query) = <<>>

----------------------------------------------------------------------------
(* C13: for every weight vector and every target N smaller than the number of
   categories, compute_category_targets terminates (it returns or raises), and
   the bodies of its two correction loops run at most as many times as there
   are categories, also when the quota sum stays above N. *)
C13_TerminatesBounded ==
    /\ [](max_papers < Len(cats) => q_iters <= Len(cats))
    /\ (max_papers < Len(cats) => <>(q_pc \in {"done", "raised"}))

\* a call with N below the number of categories returned with a sum above N
\* after the decrement loop ran
C13_Witness ==
    /\ q_pc = "done"
    /\ max_papers < Len(cats)
    /\ q_iters >= 1
    /\ SumSeq(targets) > max_papers

----------------------------------------------------------------------------
(* C16: no quota is ever lowered below 1, and whenever the returned quotas sum
   to more than N, every returned quota equals 1. *)
C16_DecrementStopsAtOnes ==
    /\ \A i \in 1..Len(int_alloc) : int_alloc[i] >= 1
    /\ (q_pc = "done" /\ SumSeq(targets) > max_papers =>
            \A i \in 1..Len(targets) : targets[i] = 1)

----------------------------------------------------------------------------
(* C15: the first backend call of generate uses the configured temperature
   and the original messages, one system message followed by one user message;
   a retry call uses temperature 0 and the original messages, unchanged,
   followed by exactly one corrective message; after a retry generate returns
   the retry call's output. *)
C15_RetryCallShape ==
    /\ (Len(g_calls) >= 1 =>
            /\ g_calls[1].temp = Temperature
            /\ g_calls[1].msgs = build_messages(g_args.query, g_args.context)
            /\ Len(g_calls[1].msgs) = 2
            /\ g_calls[1].msgs[1].role = "system"
            /\ g_calls[1].msgs[2].role = "user")
    /\ (Len(g_calls) >= 2 =>
            /\ g_calls[2].temp = 0
            /\ Len(g_calls[2].msgs) = Len(g_calls[1].msgs) + 1
            /\ SubSeq(g_calls[2].msgs, 1, 2) = g_calls[1].msgs
            /\ g_calls[2].msgs[3] = RetryMessage)
    /\ (g_pc = "final" => (Len(g_calls) = 2 /\ g_out = g_calls[2].out))
    /\ (g_pc = "accepted" => (Len(g_calls) = 1 /\ g_out = g_calls[1].out))

\* generate returned after a retry whose output differs from the first output
C15_Witness ==
    /\ g_pc = "final"
    /\ Len(g_calls) = 2
    /\ g_calls[2].out # g_calls[1].out
    /\ g_out = g_calls[2].out

----------------------------------------------------------------------------
(* C17: the rendered context is made of the complete blocks of a prefix of the
   selected top-k documents, in ranked order, joined by the separator: the
   prefix ends at the first document whose block, added to the blocks already
   taken, exceeds max_context_chars, and no later document is rendered even
   if its block alone would fit. *)
SelectedDocs == Prefix(r.ranked, EffectiveK)

\* the summed length of the blocks of the first j selected documents
BlockChars(j) == SumSeq([i \in 1..j |-> Len(Block(SelectedDocs[i]))])

C17_ContextIsPrefix ==
    a_pc \in {"retrieved", "generating", "done"} =>
        \E j \in 0..Len(SelectedDocs) :
            /\ r.retrieved_context = Join([i \in 1..j |-> Block(SelectedDocs[i])], S_SEP)
            /\ BlockChars(j) <= cfg.max_context_chars
            /\ (j < Len(SelectedDocs) => BlockChars(j + 1) > cfg.max_context_chars)

\* the first selected block does not fit, the second alone would, nothing is rendered
C17_Witness ==
    /\ a_pc = "retrieved"
    /\ Len(SelectedDocs) >= 2
    /\ Len(Block(SelectedDocs[1])) > cfg.max_context_chars
    /\ Len(Block(SelectedDocs[2])) <= cfg.max_context_chars
    /\ r.retrieved_context = <<>>

----------------------------------------------------------------------------
(* C18: whatever the feed returns, fetch_papers_weighted yields in total at
   most max_papers records and for each category at most that category's
   computed quota, also when the computed quotas sum to more than max_papers. *)
C18_YieldWithinQuotas ==
    f_pc \in {"cat", "page", "entry", "done", "raised"} /\ q_pc = "done" =>
        /\ SumSeq(f_yielded) <= max_papers
        /\ \A i \in 1..Len(targets) : f_yielded[i] <= targets[i]

\* the quotas sum to more than max_papers; the run ended at the global cap
\* with a category of positive quota that yielded nothing
C18_Witness ==
    /\ f_pc = "done"
    /\ SumSeq(targets) > max_papers
    /\ SumSeq(f_yielded) = max_papers
    /\ max_papers >= 1
    /\ \E i \in 1..Len(targets) : targets[i] >= 1 /\ f_yielded[i] = 0

----------------------------------------------------------------------------
(* C14: with several requests in flight in any interleaving, the shared
   retriever and generator state is never modified; every step changes the
   locals of one request only, and a request that has ended keeps its
   outcome; each request's retrieval result, messages and payload are those
   determined by its own request, its own backend results and the
   configuration loaded at startup, whatever the other requests do or
   however they fail. *)
LocalsOf(i) ==
    <<c_req[i], c_pc[i], c_k[i], c_rows[i], c_scores[i], c_r[i], c_calls[i], c_out[i], c_payload[i]>>

\* what request i must hold, computed from its own inputs alone
OwnResult(i) ==
    ResultOf(_rerank(ConcConfig.retriever.use_reranker,
                     CandidatesOf(c_rows[i], ConcConfig.retriever), c_scores[i]),
             KOf(c_req[i], ConcConfig.retriever), ConcConfig.retriever)

OwnState(i) ==
    /\ (c_pc[i] \in {"generate", "retry", "respond", "done"} => c_r[i] = Some(OwnResult(i)))
    /\ (c_pc[i] \in {"retry", "respond", "done"} =>
            /\ c_calls[i][1].temp = ConcConfig.generator.temperature
            /\ c_calls[i][1].msgs = build_messages(c_req[i].query, OwnResult(i).retrieved_context)
            /\ c_out[i] = c_calls[i][Len(c_calls[i])].out)
    /\ (c_pc[i] = "done" =>
            c_payload[i] = Some(BuildPayload(OwnResult(i), c_calls[i][Len(c_calls[i])].out, c_req[i])))
    /\ (c_pc[i] # "done" => c_payload[i] = Absent)

C14_RequestsIsolated ==
    /\ [](\A i \in Requests : OwnState(i))
    /\ [][/\ c_shared' = c_shared
          /\ \A i \in Requests : \A j \in Requests :
                i # j => (LocalsOf(i)' = LocalsOf(i) \/ LocalsOf(j)' = LocalsOf(j))
          /\ \A i \in Requests :
                c_pc[i] \in {"done", "failed", "rejected"} => LocalsOf(i)' = LocalsOf(i)]_vars

\* one request failed in its retry call, the other, which asked for the
\* configured k, answered with both documents of its own result
C14_Witness ==
    /\ c_pc[1] = "failed"
    /\ Len(c_calls[1]) = 1
    /\ c_req[1].top_k = Some(1)
    /\ c_pc[2] = "done"
    /\ c_req[2].top_k = Absent
    /\ Len(c_payload[2][1].citations) = 2
    /\ c_rows[1] # c_rows[2]

====
